---------------------------- MODULE Spec2Model ----------------------------
(***************************************************************************)
(* The tool-invocation gateway of obsidian_mcp: server.py's call_tool      *)
(* dispatches a named invocation to one of the twelve handlers of          *)
(* tools.py; a handler binds and checks its arguments, constructs an       *)
(* Obsidian client (obsidian.py) and calls one client method, which goes   *)
(* through Obsidian._make_request to the store's HTTP API.                 *)
(*                                                                         *)
(* Python values are tagged records [t |-> <type>, v |-> <value>]; a key   *)
(* missing from a dict is the value Absent.  A formatted string is the     *)
(* sequence of its literal and interpolated parts.  The handlers are       *)
(* `async def` bodies without any await: each runs to completion in one    *)
(* step of the event loop, so a handler is one action.                     *)
(***************************************************************************)
EXTENDS Integers, Sequences, FiniteSets, TLC

VARIABLES
    vaultIsDir,     \* filesystem: is the default local vault path a directory
    files,          \* the files a store that keeps bodies faithfully holds
    environ,        \* OBSIDIAN_API_KEY in the environment of the process
    dotenv,         \* OBSIDIAN_API_KEY in the .env file
    api_key,        \* tools.py:14  the token the handlers give their client
    server_api_key, \* server.py:26  the token startup insists on
    tool_handlers,  \* server.py:32  the registry (names of registered tools)
    phase,          \* "failed" | "idle" | "dispatched" | "returned"
    name,           \* call_tool's name argument
    arguments,      \* call_tool's arguments argument
    responses,      \* what the store answered, one entry per request issued
    requests,       \* the calls of requests.request made for this invocation
    client,         \* "none" | "constructed" | "failed": Obsidian.__init__
    handler,        \* what the handler returned or raised (run_tool)
    result,         \* what call_tool returned or raised to its caller
    other           \* a second invocation in flight: its phase, name, ..., result

vars == <<vaultIsDir, files, environ, dotenv, api_key, server_api_key,
                   tool_handlers, other, phase, name, arguments,
          responses, requests, client, handler, result>>

---------------------------------------------------------------------------
(* Bounds of the model *)

\* longest filepaths list given to batch_get_file_contents
MaxPaths == 3
\* longest result list the store returns to a simple search
MaxResults == 2

---------------------------------------------------------------------------
(* Python values *)

Absent == [t |-> "absent"]
Null == [t |-> "null"]
PyStr(s) == [t |-> "str", v |-> s]
PyInt(n) == [t |-> "int", v |-> n]
PyBool(b) == [t |-> "bool", v |-> b]
PyList(s) == [t |-> "list", v |-> s]
PyDict(d) == [t |-> "dict", v |-> d]
\* an f-string: the sequence of its parts
Fmt(parts) == [t |-> "fstr", v |-> parts]

\* dict.get(key, default), the dict's entry for key being e
Get(e, default) == IF e = Absent THEN default ELSE e

\* what a function returned, or the exception it raised
Return(v) == [ok |-> TRUE, value |-> v]
Raise(type, msg) == [ok |-> FALSE, exc |-> [type |-> type, msg |-> msg]]
NoResult == [ok |-> FALSE, exc |-> [type |-> "none", msg |-> <<>>]]

RECURSIVE SeqsUpTo(_, _)
SeqsUpTo(S, n) ==
    IF n = 0 THEN {<<>>}
    ELSE LET shorter == SeqsUpTo(S, n - 1)
         IN  shorter \cup {Append(s, x) : s \in shorter, x \in S}

---------------------------------------------------------------------------
(* Configuration *)

Tokens == {"tok-A", "tok-B"}
obsidian_host == "127.0.0.1"
protocol == "https"
port == 27124
verify_ssl == FALSE
timeout == <<3, 6>>
local_vault_path == "C:\\Users\\joelc\\Obsidian\\Home"

ToolNames ==
    {"list_files_in_dir", "list_files_in_vault", "get_file_contents",
     "simple_search", "patch_content", "append_content", "delete_file",
     "complex_search", "batch_get_file_contents", "get_periodic_note",
     "get_recent_periodic_notes", "get_recent_changes"}

---------------------------------------------------------------------------
(* The store's answers *)

EmptyBody == [t |-> "empty"]
TextBody(s) == [t |-> "text", v |-> s]
JsonBody(v) == [t |-> "json", v |-> v]

Response(status, body) ==
    [kind |-> "response", status_code |-> status, content |-> body]
\* requests raised ConnectionError, Timeout, SSLError, ... before any response
TransportFailure(desc) == [kind |-> "transport", desc |-> desc]

ErrorBodies ==
    {EmptyBody, TextBody("<html>Bad Gateway</html>"), JsonBody(PyList(<<>>))}
    \cup {JsonBody(PyDict([errorCode |-> c, message |-> m])) :
             c \in {Absent, PyInt(40102)}, m \in {Absent, PyStr("not found")}}

FailureResponses ==
    {Response(404, b) : b \in ErrorBodies}
    \cup {Response(500, EmptyBody)}
    \cup {TransportFailure(d) : d \in {"Connection refused", "Read timed out"}}

\* Response.raise_for_status() raises HTTPError for these
IsHTTPError(resp) == resp.status_code >= 400 /\ resp.status_code < 600

\* Response.json()
ResponseJson(resp) ==
    IF resp.content.t = "json"
    THEN Return(resp.content.v)
    ELSE Raise("JSONDecodeError", <<"Expecting value: line 1 column 1 (char 0)">>)

\* Response.text
ResponseText(resp) ==
    CASE resp.content.t = "text" -> PyStr(resp.content.v)
      [] resp.content.t = "empty" -> PyStr("")
      [] OTHER -> [t |-> "jsontext", v |-> resp.content.v]

---------------------------------------------------------------------------
(* obsidian.py: class Obsidian *)

NoHeaders == [h \in {} |-> <<>>]
NoParams == [k \in {} |-> Absent]
NoKwargs == [headers |-> NoHeaders, params |-> NoParams, data |-> Absent, json |-> Absent]

\* the constructor not looking for the vault directory
Obsidian_anywhere(key, host, isDir) ==
    [ok |-> TRUE,
     self |-> [api_key |-> key, protocol |-> protocol, host |-> host,
               port |-> port, verify_ssl |-> verify_ssl, timeout |-> timeout,
               base_url |-> <<protocol, "://", host, ":", ToString(port)>>]]

\* Obsidian.__init__ as the handlers call it: api_key and host given, no
\* local_vault_path, so the default path is the one tested with is_dir()
Obsidian(key, host, isDir) ==
    IF ~isDir
    THEN Raise("FileNotFoundError",
               <<"Local Obsidian vault not found at ", local_vault_path>>)
    ELSE [ok |-> TRUE,
          self |-> [api_key |-> key, protocol |-> protocol, host |-> host,
                    port |-> port, verify_ssl |-> verify_ssl, timeout |-> timeout,
                    base_url |-> <<protocol, "://", host, ":", ToString(port)>>]]

_get_headers(self) == "Authorization" :> <<"Bearer ", self.api_key>>

\* the handler reading the key "code", which the store never sends
HTTPErrorHandler_wrongkey(resp) ==
    LET error_data == IF resp.content.t # "empty"
                      THEN ResponseJson(resp)
                      ELSE Return(PyDict([errorCode |-> Absent, message |-> Absent]))
    IN  IF ~error_data.ok THEN error_data
        ELSE IF error_data.value.t # "dict"
        THEN Raise("AttributeError", <<"'list' object has no attribute 'get'">>)
        ELSE LET message == Get(error_data.value.v.message, PyStr("<unknown>"))
             IN  Raise("Exception", <<"Error ", "-1", ": ", message.v>>)

\* the exception raised for an HTTPError e, e.response being resp
HTTPErrorHandler(resp) ==
    LET error_data == IF resp.content.t # "empty"
                      THEN ResponseJson(resp)
                      ELSE Return(PyDict([errorCode |-> Absent, message |-> Absent]))
    IN  IF ~error_data.ok THEN error_data
        ELSE IF error_data.value.t # "dict"
        THEN Raise("AttributeError", <<"'list' object has no attribute 'get'">>)
        ELSE LET code == Get(error_data.value.v.errorCode, PyInt(-1))
                 message == Get(error_data.value.v.message, PyStr("<unknown>"))
             IN  Raise("Exception", <<"Error ", ToString(code.v), ": ", message.v>>)

\* _make_request sending the headers of its caller in place of its own
_make_request_replacing(self, method, path, kwargs, resp) ==
    LET url == self.base_url \o path
        headers == IF kwargs.headers = NoHeaders THEN _get_headers(self)
                   ELSE kwargs.headers
        request == [method |-> method, url |-> url, headers |-> headers,
                    verify |-> self.verify_ssl, timeout |-> self.timeout,
                    params |-> kwargs.params, data |-> kwargs.data,
                    json |-> kwargs.json]
    IN  [request |-> request,
         out |-> IF resp.kind = "transport"
                 THEN Raise("Exception", <<"Request failed: ", resp.desc>>)
                 ELSE IF IsHTTPError(resp) THEN HTTPErrorHandler(resp)
                 ELSE Return(resp)]

\* Obsidian._make_request: the request handed to requests.request, and the
\* response returned or the exception raised when the store answers resp
_make_request(self, method, path, kwargs, resp) ==
    LET url == self.base_url \o path
        headers == kwargs.headers @@ _get_headers(self)
        request == [method |-> method, url |-> url, headers |-> headers,
                    verify |-> self.verify_ssl, timeout |-> self.timeout,
                    params |-> kwargs.params, data |-> kwargs.data,
                    json |-> kwargs.json]
    IN  [request |-> request,
         out |-> IF resp.kind = "transport"
                 THEN Raise("Exception", <<"Request failed: ", resp.desc>>)
                 ELSE IF IsHTTPError(resp) THEN HTTPErrorHandler(resp)
                 ELSE Return(resp)]

\* What a client method makes of its call r of _make_request: the exception
\* goes up as it is, a response is turned into the method's return value.
ReturnFiles(r) ==      \* return response.json()['files']
    [requests |-> <<r.request>>,
     out |-> IF ~r.out.ok THEN r.out
             ELSE IF ~ResponseJson(r.out.value).ok THEN ResponseJson(r.out.value)
             ELSE IF ResponseJson(r.out.value).value.v.files = Absent
             THEN Raise("KeyError", <<"'files'">>)
             ELSE Return(ResponseJson(r.out.value).value.v.files)]
ReturnJson(r) ==       \* return response.json()
    [requests |-> <<r.request>>,
     out |-> IF ~r.out.ok THEN r.out ELSE ResponseJson(r.out.value)]
ReturnText(r) ==       \* return response.text
    [requests |-> <<r.request>>,
     out |-> IF ~r.out.ok THEN r.out ELSE Return(ResponseText(r.out.value))]
ReturnNone(r) ==       \* return None
    [requests |-> <<r.request>>,
     out |-> IF ~r.out.ok THEN r.out ELSE Return(Null)]
ReturnStatusCode(r) == \* return response.status_code
    [requests |-> <<r.request>>,
     out |-> IF ~r.out.ok THEN r.out ELSE Return(PyInt(r.out.value.status_code))]

Today == "2025-05-01"
ReturnContents(r) ==   \* return {"now": ..., "content": response.text}
    [requests |-> <<r.request>>,
     out |-> IF ~r.out.ok THEN r.out
             ELSE Return(PyDict([now |-> PyStr(Today),
                                 content |-> ResponseText(r.out.value)]))]

list_files_in_vault_api(self, resp) ==
    ReturnFiles(_make_request(self, "GET", <<"/vault/">>, NoKwargs, resp))

list_files_in_dir_api(self, dirpath, resp) ==
    ReturnFiles(_make_request(self, "GET", <<"/vault/", dirpath.v, "/">>, NoKwargs, resp))

get_file_contents_api(self, filepath, resp) ==
    ReturnContents(_make_request(self, "GET", <<"/vault/", filepath.v>>, NoKwargs, resp))

\* str(x) of a str, and of the dict get_file_contents returns, as parts
Repr(x) ==
    CASE x.t = "str" -> <<"'", x.v, "'">>
      [] x.t = "jsontext" -> <<"'", "<json>", "'">>
StrOfContents(d) ==
    <<"{'now': ">> \o Repr(d.v.now) \o <<", 'content': ">> \o Repr(d.v.content) \o <<"}">>

\* one pass of the loop of get_batch_file_contents: the section appended to
\* result for filepath, c being what get_file_contents(filepath) did
Section(filepath, c) ==
    IF c.out.ok
    THEN <<"# ", filepath.v, "\n\n">> \o StrOfContents(c.out.value) \o <<"\n\n---\n\n">>
    ELSE <<"# ", filepath.v, "\n\n", "Error reading file: ">> \o c.out.exc.msg
         \o <<"\n\n---\n\n">>
\* the loop given up at the first read that fails
Pass_stopping(filepath, c, rest) ==
    IF c.out.ok
    THEN [requests |-> c.requests \o rest.requests,
          result |-> Section(filepath, c) \o rest.result]
    ELSE [requests |-> c.requests, result |-> Section(filepath, c)]

Pass(filepath, c, rest) ==
    [requests |-> c.requests \o rest.requests,
     result |-> Section(filepath, c) \o rest.result]

\* the loop over filepaths[i..], resps[i] being the store's answer to the
\* read of filepaths[i]
RECURSIVE BatchFrom(_, _, _, _)
BatchFrom(self, filepaths, resps, i) ==
    IF i > Len(filepaths) THEN [requests |-> <<>>, result |-> <<>>]
    ELSE Pass(filepaths[i], get_file_contents_api(self, filepaths[i], resps[i]),
              BatchFrom(self, filepaths, resps, i + 1))

Joined(b) == [requests |-> b.requests, out |-> Return(Fmt(b.result))]
get_batch_file_contents_api(self, filepaths, resps) ==
    Joined(BatchFrom(self, filepaths, resps, 1))

search_api(self, query, context_length, resp) ==
    ReturnJson(_make_request(self, "POST", <<"/search/simple/">>,
        [NoKwargs EXCEPT !.params = ("query" :> query)
                                    @@ ("contextLength" :> context_length)],
        resp))

\* append_content posting no body
append_content_api_nobody(self, filepath, content, resp) ==
    ReturnNone(_make_request(self, "POST", <<"/vault/", filepath.v>>,
        [NoKwargs EXCEPT !.headers = "Content-Type" :> <<"text/markdown">>],
        resp))

append_content_api(self, filepath, content, resp) ==
    ReturnNone(_make_request(self, "POST", <<"/vault/", filepath.v>>,
        [NoKwargs EXCEPT !.headers = "Content-Type" :> <<"text/markdown">>,
                         !.data = content],
        resp))

\* urllib.parse.quote(string) with its default safe="/"
Unreserved ==
    {"A", "B", "C", "D", "E", "F", "G", "H", "I", "J", "K", "L", "M", "N", "O",
     "P", "Q", "R", "S", "T", "U", "V", "W", "X", "Y", "Z",
     "a", "b", "c", "d", "e", "f", "g", "h", "i", "j", "k", "l", "m", "n", "o",
     "p", "q", "r", "s", "t", "u", "v", "w", "x", "y", "z",
     "0", "1", "2", "3", "4", "5", "6", "7", "8", "9", "_", ".", "-", "~"}
PercentEncoded(c) ==
    CASE c = " " -> "%20"
      [] c = "#" -> "%23"
      [] c = "%" -> "%25"
      [] c = ":" -> "%3A"
      [] c = "^" -> "%5E"
quote(chars) ==
    [i \in 1..Len(chars) |->
        IF chars[i] \in Unreserved \cup {"/"} THEN chars[i] ELSE PercentEncoded(chars[i])]

\* patch_content sending the target as it was given
patch_content_api_raw(self, filepath, operation, target_type, target, content, resp) ==
    ReturnNone(_make_request(self, "PATCH", <<"/vault/", filepath.v>>,
        [NoKwargs EXCEPT !.headers = ("Content-Type" :> <<"text/markdown">>)
                                     @@ ("Operation" :> <<operation.v>>)
                                     @@ ("Target-Type" :> <<target_type.v>>)
                                     @@ ("Target" :> target.v),
                         !.data = content],
        resp))

patch_content_api(self, filepath, operation, target_type, target, content, resp) ==
    ReturnNone(_make_request(self, "PATCH", <<"/vault/", filepath.v>>,
        [NoKwargs EXCEPT !.headers = ("Content-Type" :> <<"text/markdown">>)
                                     @@ ("Operation" :> <<operation.v>>)
                                     @@ ("Target-Type" :> <<target_type.v>>)
                                     @@ ("Target" :> quote(target.v)),
                         !.data = content],
        resp))

\* delete_file with the path of its request lacking the /vault/ prefix
delete_file_api_unrooted(self, filepath, resp) ==
    ReturnStatusCode(_make_request(self, "DELETE", <<"/", filepath.v>>,
                                   NoKwargs, resp))

delete_file_api(self, filepath, resp) ==
    ReturnStatusCode(_make_request(self, "DELETE", <<"/vault/", filepath.v>>,
                                   NoKwargs, resp))

search_json_api(self, query, resp) ==
    ReturnJson(_make_request(self, "POST", <<"/search/">>,
        [NoKwargs EXCEPT
            !.headers = "Content-Type" :> <<"application/vnd.olrapi.jsonlogic+json">>,
            !.json = query],
        resp))

\* get_periodic_note with the trailing slash of its path forgotten
get_periodic_note_api_noslash(self, period, resp) ==
    ReturnText(_make_request(self, "GET", <<"/periodic/", period.v>>,
                             NoKwargs, resp))

get_periodic_note_api(self, period, resp) ==
    ReturnText(_make_request(self, "GET", <<"/periodic/", period.v, "/">>,
                             NoKwargs, resp))

get_recent_periodic_notes_api(self, period, limit, include_content, resp) ==
    ReturnJson(_make_request(self, "GET", <<"/periodic/", period.v, "/recent">>,
        [NoKwargs EXCEPT !.params = ("limit" :> limit)
                                    @@ ("includeContent" :> include_content)],
        resp))

\* "\n".join(query_lines)
dql_query(limit, days) ==
    <<"TABLE file.mtime", "\n",
      "WHERE file.mtime >= date(today) - dur(", ToString(days.v), " days)", "\n",
      "SORT file.mtime DESC", "\n",
      "LIMIT ", ToString(limit.v)>>

get_recent_changes_api(self, limit, days, resp) ==
    ReturnJson(_make_request(self, "POST", <<"/search/">>,
        [NoKwargs EXCEPT
            !.headers = "Content-Type" :> <<"application/vnd.olrapi.dataview.dql+txt">>,
            !.data = [t |-> "bytes", v |-> dql_query(limit, days)]],
        resp))

---------------------------------------------------------------------------
(* tools.py: the twelve handlers *)

\* what a handler did: the requests it issued, how far the construction of
\* its client got, and what it returned or raised
Rejected(out) == [requests |-> <<>>, client |-> "none", out |-> out]
Unconstructed(out) == [requests |-> <<>>, client |-> "failed", out |-> out]
\* c is what the client method did; the handler returns its value
Returned(c) == [requests |-> c.requests, client |-> "constructed", out |-> c.out]
\* the handler announcing success whatever the method did
Announced_always(c, text) ==
    [requests |-> c.requests, client |-> "constructed", out |-> Return(Fmt(text))]

\* ... or returns the text of its own once the method has returned
Announced(c, text) ==
    [requests |-> c.requests, client |-> "constructed",
     out |-> IF c.out.ok THEN Return(Fmt(text)) ELSE c.out]

\* The binding of the arguments to a handler's annotated parameters, done
\* before its body runs: a required parameter must be present, and a value
\* must have the annotated type (str, int, bool, list[str], dict, Literal).
IsStr(e) == e.t = "str"
IsInt(e) == e.t = "int"
IsBool(e) == e.t = "bool"
IsDict(e) == e.t = "dict"
IsListOfStr(e) == e.t = "list" /\ \A i \in 1..Len(e.v) : e.v[i].t = "str"
IsLiteral(e, choices) == e.t = "str" /\ e.v \in choices

\* checks: <<parameter, bound correctly>> in the order of the signature
Bind(checks) ==
    LET bad == {i \in 1..Len(checks) : ~checks[i][2]}
        first == CHOOSE i \in bad : \A j \in bad : i <= j
    IN  IF bad = {} THEN Return(Null)
        ELSE Raise("ValidationError", <<"Input validation error: ", checks[first][1]>>)

valid_periods == {"daily", "weekly", "monthly", "quarterly", "yearly"}

list_files_in_vault(args, resps, key, isDir) ==
    IF ~Obsidian(key, obsidian_host, isDir).ok
    THEN Unconstructed(Obsidian(key, obsidian_host, isDir))
    ELSE Returned(list_files_in_vault_api(Obsidian(key, obsidian_host, isDir).self,
                                          resps[1]))

list_files_in_dir(args, resps, key, isDir) ==
    LET bound == Bind(<< <<"dirpath", IsStr(args.dirpath)>> >>)
        api == Obsidian(key, obsidian_host, isDir)
    IN  IF ~bound.ok THEN Rejected(bound)
        ELSE IF ~api.ok THEN Unconstructed(api)
        ELSE Returned(list_files_in_dir_api(api.self, args.dirpath, resps[1]))

get_file_contents(args, resps, key, isDir) ==
    LET bound == Bind(<< <<"filepath", IsStr(args.filepath)>> >>)
        api == Obsidian(key, obsidian_host, isDir)
    IN  IF ~bound.ok THEN Rejected(bound)
        ELSE IF ~api.ok THEN Unconstructed(api)
        ELSE Returned(get_file_contents_api(api.self, args.filepath, resps[1]))

\* the re-projection of one raw match, and of one raw result
FormatMatch(match) ==
    LET context == Get(match.v.context, PyStr(""))
        match_pos == Get(match.v.match, PyDict([start |-> Absent, end |-> Absent]))
        start == Get(match_pos.v.start, PyInt(0))
        end == Get(match_pos.v.end, PyInt(0))
    IN  PyDict([context |-> context,
                match_position |-> PyDict([start |-> start, end |-> end])])

\* the raw result handed back as the store sent it
FormatResult_raw(res) == res

FormatResult(res) ==
    LET matches == Get(res.v.matches, PyList(<<>>))
        formatted_matches == [i \in 1..Len(matches.v) |-> FormatMatch(matches.v[i])]
    IN  PyDict([filename |-> Get(res.v.filename, PyStr("")),
                score |-> Get(res.v.score, PyInt(0)),
                matches |-> PyList(formatted_matches)])

formatted_results(results) ==
    PyList([i \in 1..Len(results.v) |-> FormatResult(results.v[i])])

\* c is what api.search did
Formatted(c) ==
    [requests |-> c.requests, client |-> "constructed",
     out |-> IF c.out.ok THEN Return(formatted_results(c.out.value)) ELSE c.out]

simple_search(args, resps, key, isDir) ==
    LET context_length == Get(args.context_length, PyInt(100))
        bound == Bind(<< <<"query", IsStr(args.query)>>,
                         <<"context_length", IsInt(context_length)>> >>)
        api == Obsidian(key, obsidian_host, isDir)
    IN  IF ~bound.ok THEN Rejected(bound)
        ELSE IF ~api.ok THEN Unconstructed(api)
        ELSE Formatted(search_api(api.self, args.query, context_length, resps[1]))

append_content(args, resps, key, isDir) ==
    LET bound == Bind(<< <<"filepath", IsStr(args.filepath)>>,
                         <<"content", IsStr(args.content)>> >>)
        api == Obsidian(key, obsidian_host, isDir)
    IN  IF ~bound.ok THEN Rejected(bound)
        ELSE IF ~api.ok THEN Unconstructed(api)
        ELSE Announced(append_content_api(api.self, args.filepath, args.content,
                                          resps[1]),
                       <<"Successfully appended content to ", args.filepath.v>>)

patch_content(args, resps, key, isDir) ==
    LET bound == Bind(<< <<"filepath", IsStr(args.filepath)>>,
                         <<"operation",
                           IsLiteral(args.operation, {"append", "prepend", "replace"})>>,
                         <<"target_type",
                           IsLiteral(args.target_type, {"heading", "block", "frontmatter"})>>,
                         <<"target", IsStr(args.target)>>,
                         <<"content", IsStr(args.content)>> >>)
        api == Obsidian(key, obsidian_host, isDir)
    IN  IF ~bound.ok THEN Rejected(bound)
        ELSE IF ~api.ok THEN Unconstructed(api)
        ELSE Announced(patch_content_api(api.self, args.filepath, args.operation,
                                         args.target_type, args.target,
                                         args.content, resps[1]),
                       <<"Successfully patched content in ", args.filepath.v>>)

\* delete_file without its gate on confirm
delete_file_ungated(args, resps, key, isDir) ==
    LET confirm == Get(args.confirm, PyBool(FALSE))
        bound == Bind(<< <<"filepath", IsStr(args.filepath)>>,
                         <<"confirm", IsBool(confirm)>> >>)
        api == Obsidian(key, obsidian_host, isDir)
    IN  IF ~bound.ok THEN Rejected(bound)
        ELSE IF ~api.ok THEN Unconstructed(api)
        ELSE Announced(delete_file_api(api.self, args.filepath, resps[1]),
                       <<"Successfully deleted ", args.filepath.v>>)

delete_file(args, resps, key, isDir) ==
    LET confirm == Get(args.confirm, PyBool(FALSE))
        bound == Bind(<< <<"filepath", IsStr(args.filepath)>>,
                         <<"confirm", IsBool(confirm)>> >>)
        api == Obsidian(key, obsidian_host, isDir)
    IN  IF ~bound.ok THEN Rejected(bound)
        ELSE IF ~confirm.v
        THEN Rejected(Raise("RuntimeError",
                            <<"confirm must be set to true to delete a file">>))
        ELSE IF ~api.ok THEN Unconstructed(api)
        ELSE Announced(delete_file_api(api.self, args.filepath, resps[1]),
                       <<"Successfully deleted ", args.filepath.v>>)

complex_search(args, resps, key, isDir) ==
    LET bound == Bind(<< <<"query", IsDict(args.query)>> >>)
        api == Obsidian(key, obsidian_host, isDir)
    IN  IF ~bound.ok THEN Rejected(bound)
        ELSE IF ~api.ok THEN Unconstructed(api)
        ELSE Returned(search_json_api(api.self, args.query, resps[1]))

batch_get_file_contents(args, resps, key, isDir) ==
    LET bound == Bind(<< <<"filepaths", IsListOfStr(args.filepaths)>> >>)
        api == Obsidian(key, obsidian_host, isDir)
    IN  IF ~bound.ok THEN Rejected(bound)
        ELSE IF ~api.ok THEN Unconstructed(api)
        ELSE Returned(get_batch_file_contents_api(api.self, args.filepaths.v, resps))

get_periodic_note(args, resps, key, isDir) ==
    LET bound == Bind(<< <<"period", IsLiteral(args.period, valid_periods)>> >>)
        api == Obsidian(key, obsidian_host, isDir)
    IN  IF ~bound.ok THEN Rejected(bound)
        ELSE IF args.period.v \notin valid_periods
        THEN Rejected(Raise("RuntimeError", <<"Invalid period: ", args.period.v>>))
        ELSE IF ~api.ok THEN Unconstructed(api)
        ELSE Returned(get_periodic_note_api(api.self, args.period, resps[1]))

get_recent_periodic_notes(args, resps, key, isDir) ==
    LET limit == Get(args.limit, PyInt(5))
        include_content == Get(args.include_content, PyBool(FALSE))
        bound == Bind(<< <<"period", IsLiteral(args.period, valid_periods)>>,
                         <<"limit", IsInt(limit)>>,
                         <<"include_content", IsBool(include_content)>> >>)
        api == Obsidian(key, obsidian_host, isDir)
    IN  IF ~bound.ok THEN Rejected(bound)
        ELSE IF args.period.v \notin valid_periods
        THEN Rejected(Raise("RuntimeError", <<"Invalid period: ", args.period.v>>))
        ELSE IF ~IsInt(limit) \/ limit.v < 1
        THEN Rejected(Raise("RuntimeError", <<"Invalid limit: ", ToString(limit.v)>>))
        ELSE IF ~IsBool(include_content)
        THEN Rejected(Raise("RuntimeError", <<"Invalid include_content">>))
        ELSE IF ~api.ok THEN Unconstructed(api)
        ELSE Returned(get_recent_periodic_notes_api(api.self, args.period, limit,
                                                    include_content, resps[1]))

get_recent_changes(args, resps, key, isDir) ==
    LET limit == Get(args.limit, PyInt(10))
        days == Get(args.days, PyInt(90))
        bound == Bind(<< <<"limit", IsInt(limit)>>, <<"days", IsInt(days)>> >>)
        api == Obsidian(key, obsidian_host, isDir)
    IN  IF ~bound.ok THEN Rejected(bound)
        ELSE IF ~IsInt(limit) \/ limit.v < 1
        THEN Rejected(Raise("RuntimeError", <<"Invalid limit: ", ToString(limit.v)>>))
        ELSE IF ~IsInt(days) \/ days.v < 1
        THEN Rejected(Raise("RuntimeError", <<"Invalid days: ", ToString(days.v)>>))
        ELSE IF ~api.ok THEN Unconstructed(api)
        ELSE Returned(get_recent_changes_api(api.self, limit, days, resps[1]))

---------------------------------------------------------------------------
(* server.py: the registry and call_tool *)

\* tool_handler.run_tool(arguments) of the handler registered under n
run_tool(n, args, resps, key, isDir) ==
    CASE n = "list_files_in_vault" -> list_files_in_vault(args, resps, key, isDir)
      [] n = "list_files_in_dir" -> list_files_in_dir(args, resps, key, isDir)
      [] n = "get_file_contents" -> get_file_contents(args, resps, key, isDir)
      [] n = "simple_search" -> simple_search(args, resps, key, isDir)
      [] n = "append_content" -> append_content(args, resps, key, isDir)
      [] n = "patch_content" -> patch_content(args, resps, key, isDir)
      [] n = "delete_file" -> delete_file(args, resps, key, isDir)
      [] n = "complex_search" -> complex_search(args, resps, key, isDir)
      [] n = "batch_get_file_contents" -> batch_get_file_contents(args, resps, key, isDir)
      [] n = "get_periodic_note" -> get_periodic_note(args, resps, key, isDir)
      [] n = "get_recent_periodic_notes" -> get_recent_periodic_notes(args, resps, key, isDir)
      [] n = "get_recent_changes" -> get_recent_changes(args, resps, key, isDir)

\* the exception call_tool raises for the exception e of a handler
Reraise(e) ==
    Raise("RuntimeError", <<"Caught Exception. Error: ">> \o e.exc.msg)

\* the try/except around run_tool, h being what the handler did
Caught(h) ==
    [requests |-> h.requests, client |-> h.client, handler |-> h.out,
     result |-> IF h.out.ok THEN h.out ELSE Reraise(h.out)]

\* call_tool falling back on a handler for a name it does not know
call_tool_defaulting(n, args, resps, key, isDir, registry) ==
    IF args.t # "dict"
    THEN [requests |-> <<>>, client |-> "none", handler |-> NoResult,
          result |-> Raise("RuntimeError", <<"arguments must be dictionary">>)]
    ELSE IF n \notin registry
    THEN Caught(run_tool("list_files_in_vault", NoParams, resps, key, isDir))
    ELSE Caught(run_tool(n, args.v, resps, key, isDir))

call_tool(n, args, resps, key, isDir, registry) ==
    IF args.t # "dict"
    THEN [requests |-> <<>>, client |-> "none", handler |-> NoResult,
          result |-> Raise("RuntimeError", <<"arguments must be dictionary">>)]
    ELSE IF n \notin registry
    THEN [requests |-> <<>>, client |-> "none", handler |-> NoResult,
          result |-> Raise("ValueError", <<"Unknown tool: ", n>>)]
    ELSE Caught(run_tool(n, args.v, resps, key, isDir))

---------------------------------------------------------------------------
(* The invocations a caller can send, and the answers a store can give *)

Paths == {"a.md", "missing.md"}
FilepathArgs == {PyStr(f) : f \in Paths} \cup {Null, Absent}
PeriodArgs == {PyStr(q) : q \in valid_periods \cup {"hourly"}} \cup {Null, Absent}
NotADict == PyList(<<>>)

ArgRecords(n) ==
    CASE n = "list_files_in_vault" -> {NoParams}
      [] n = "list_files_in_dir" ->
            [dirpath : {PyStr("notes"), Null, Absent}]
      [] n = "get_file_contents" -> [filepath : FilepathArgs]
      [] n = "simple_search" ->
            [query : {PyStr("foo"), Absent},
             context_length : {PyInt(50), Null, Absent}]
      [] n = "append_content" ->
            [filepath : FilepathArgs, content : {PyStr("hello"), Null, Absent}]
      [] n = "patch_content" ->
            [filepath : {PyStr("a.md"), Absent},
             operation : {PyStr(o) : o \in {"append", "prepend", "replace", "delete"}}
                         \cup {Absent},
             target_type : {PyStr(k) : k \in {"heading", "block", "frontmatter", "line"}}
                           \cup {Absent},
             target : {PyStr(<<"H", "1", ":", ":", "a", " ", "b">>),
                       PyStr(<<"^", "i", "d", "/", "2">>), Absent},
             content : {PyStr("hello"), Absent}]
      [] n = "delete_file" ->
            [filepath : FilepathArgs,
             confirm : {PyBool(TRUE), PyBool(FALSE), Null, Absent}]
      [] n = "complex_search" ->
            [query : {PyDict([glob |-> "*.md"]), PyStr("foo"), Absent}]
      [] n = "batch_get_file_contents" ->
            [filepaths : {PyList(fs) : fs \in SeqsUpTo({PyStr(f) : f \in Paths}, MaxPaths)}
                         \cup {PyList(<<PyStr("a.md"), Null>>), Null, Absent}]
      [] n = "get_periodic_note" -> [period : PeriodArgs]
      [] n = "get_recent_periodic_notes" ->
            [period : PeriodArgs,
             limit : {PyInt(i) : i \in {-1, 0, 1, 5, 50, 51}} \cup {Null, Absent},
             include_content : {PyBool(TRUE), PyBool(FALSE), Null, Absent}]
      [] n = "get_recent_changes" ->
            [limit : {PyInt(i) : i \in {0, 1, 100, 101}} \cup {Null, Absent},
             days : {PyInt(i) : i \in {0, 1, 30}} \cup {Null, Absent}]
      [] OTHER -> {NoParams}

ArgumentsFor(n) == {PyDict(r) : r \in ArgRecords(n)} \cup {NotADict}

\* raw results of the store's simple search: keys it may omit are Absent,
\* and source and path are keys the gateway does not know
StoreMatches ==
    <<PyDict([context |-> PyStr("a foo b"),
              match |-> PyDict([start |-> PyInt(2), end |-> PyInt(5)]),
              source |-> PyStr("content")]),
      PyDict([context |-> Absent,
              match |-> PyDict([start |-> PyInt(7), end |-> Absent]),
              source |-> Absent]),
      PyDict([context |-> PyStr("foo"), match |-> Absent, source |-> Absent])>>
StoreResults ==
    {PyDict([filename |-> PyStr("a.md"), score |-> Absent, matches |-> Absent,
             path |-> Absent]),
     PyDict([filename |-> PyStr("b.md"), score |-> PyInt(3),
             matches |-> PyList(SubSeq(StoreMatches, 1, 2)), path |-> PyStr("/b.md")]),
     PyDict([filename |-> Absent, score |-> PyInt(1),
             matches |-> PyList(SubSeq(StoreMatches, 3, 3)), path |-> Absent])}

SuccessResponses(n) ==
    CASE n \in {"list_files_in_vault", "list_files_in_dir"} ->
            {Response(200, JsonBody(PyDict([files |-> PyList(<<"a.md", "notes/">>)]))),
             Response(200, JsonBody(PyDict([files |-> Absent])))}
      [] n \in {"get_file_contents", "get_periodic_note"} ->
            {Response(200, TextBody("hello")), Response(200, EmptyBody)}
      [] n = "simple_search" ->
            {Response(200, JsonBody(PyList(rs))) : rs \in SeqsUpTo(StoreResults, MaxResults)}
      [] n \in {"append_content", "patch_content"} -> {Response(204, EmptyBody)}
      [] n = "delete_file" -> {Response(200, EmptyBody), Response(204, EmptyBody)}
      [] n = "batch_get_file_contents" -> {Response(200, TextBody("hello"))}
      [] OTHER ->
            {Response(200, JsonBody(PyList(<<>>))),
             Response(200, JsonBody(PyList(<<PyDict([path |-> "a.md"])>>)))}

\* one failure of each kind is enough for the reads of a batch
BatchFailures ==
    {Response(404, JsonBody(PyDict([errorCode |-> PyInt(40102),
                                    message |-> PyStr("not found")]))),
     Response(404, TextBody("<html>Bad Gateway</html>")),
     TransportFailure("Connection refused")}

Answers(n) ==
    SuccessResponses(n)
    \cup (IF n = "batch_get_file_contents" THEN BatchFailures ELSE FailureResponses)

\* the number of requests whose answers the run of n on args may consume
AnswersNeeded(n, args) ==
    IF n = "batch_get_file_contents"
    THEN IF args.t = "dict" /\ IsListOfStr(args.v.filepaths)
         THEN Len(args.v.filepaths.v) ELSE 0
    ELSE 1

---------------------------------------------------------------------------
(* The state machine *)

\* os.getenv("OBSIDIAN_API_KEY", default), e being the environment's entry
getenv(e, default) == Get(e, default)
\* load_dotenv(): an entry of .env is set unless the environment has the key
load_dotenv(env, dot) == IF env = Absent THEN dot ELSE env
\* not api_key
Falsy(k) == k = Null \/ k = PyStr("")

\* What importing server.py leaves: line 1 imports tools, whose line 14 reads
\* the token from the environment as it is then; line 17 loads .env; line 26
\* reads the token again and line 28 raises ValueError when it has none;
\* lines 44-55 register the twelve handlers.
Startup(env, dot) ==
    [api_key |-> getenv(env, PyStr("")).v,
     server_api_key |-> getenv(load_dotenv(env, dot), Null),
     tool_handlers |-> IF Falsy(getenv(load_dotenv(env, dot), Null)) THEN {}
                       ELSE ToolNames,
     phase |-> IF Falsy(getenv(load_dotenv(env, dot), Null)) THEN "failed"
               ELSE "idle"]

EnvironEntries == {Absent, PyStr("")} \cup {PyStr("tok-A")}
DotenvEntries == {Absent, PyStr("tok-B")}

\* an invocation nobody has sent yet
NotInFlight ==
    [phase |-> "idle", name |-> "", arguments |-> Absent, responses |-> <<>>,
     requests |-> <<>>, client |-> "none", handler |-> NoResult,
     result |-> NoResult]

Init ==
    /\ other = NotInFlight
    /\ vaultIsDir \in BOOLEAN
    /\ files = [p \in Paths |-> Absent]
    /\ environ \in EnvironEntries
    /\ dotenv \in DotenvEntries
    /\ api_key = Startup(environ, dotenv).api_key
    /\ server_api_key = Startup(environ, dotenv).server_api_key
    /\ tool_handlers = Startup(environ, dotenv).tool_handlers
    /\ phase = Startup(environ, dotenv).phase
    /\ name = ""
    /\ arguments = Absent
    /\ responses = <<>>
    /\ requests = <<>>
    /\ client = "none"
    /\ handler = NoResult
    /\ result = NoResult

\* the transport runtime hands an invocation to call_tool
Receive ==
    /\ phase = "idle"
    /\ \E n \in ToolNames \cup {"no_such_tool"} :
         \E a \in ArgumentsFor(n) :
            /\ name' = n
            /\ arguments' = a
    /\ phase' = "dispatched"
    /\ UNCHANGED <<vaultIsDir, files, environ, dotenv, api_key, server_api_key,
                   tool_handlers, other, responses,
                   requests, client, handler, result>>

\* what an invocation leaves behind, done being what call_tool did
Finish(done, resps) ==
    /\ requests' = done.requests
    /\ responses' = SubSeq(resps, 1, Len(done.requests))
    /\ client' = done.client
    /\ handler' = done.handler
    /\ result' = done.result

\* call_tool runs to its end, the store answering resps to its requests
Run ==
    /\ phase = "dispatched"
    /\ \E resps \in [1..AnswersNeeded(name, arguments) -> Answers(name)] :
         Finish(call_tool(name, arguments, resps, api_key, vaultIsDir, tool_handlers),
                resps)
    /\ phase' = "returned"
    /\ UNCHANGED <<vaultIsDir, files, environ, dotenv, api_key, server_api_key,
                   tool_handlers, other, name, arguments>>

ListFilesInVault ==
    /\ name = "list_files_in_vault"
    /\ Run
ListFilesInDir ==
    /\ name = "list_files_in_dir"
    /\ Run
GetFileContents ==
    /\ name = "get_file_contents"
    /\ Run
SimpleSearch ==
    /\ name = "simple_search"
    /\ Run
AppendContent ==
    /\ name = "append_content"
    /\ Run
PatchContent ==
    /\ name = "patch_content"
    /\ Run
DeleteFile ==
    /\ name = "delete_file"
    /\ Run
ComplexSearch ==
    /\ name = "complex_search"
    /\ Run
BatchGetFileContents ==
    /\ name = "batch_get_file_contents"
    /\ Run
GetPeriodicNote ==
    /\ name = "get_periodic_note"
    /\ Run
GetRecentPeriodicNotes ==
    /\ name = "get_recent_periodic_notes"
    /\ Run
GetRecentChanges ==
    /\ name = "get_recent_changes"
    /\ Run
UnknownTool ==
    /\ name = "no_such_tool"
    /\ Run

\* the result has gone back to the caller; nothing of the invocation is kept
Reply ==
    /\ phase = "returned"
    /\ phase' = "idle"
    /\ name' = ""
    /\ arguments' = Absent
    /\ responses' = <<>>
    /\ requests' = <<>>
    /\ client' = "none"
    /\ handler' = NoResult
    /\ result' = NoResult
    /\ UNCHANGED <<vaultIsDir, files, environ, dotenv, api_key, server_api_key,
                   tool_handlers, other>>

\* the local vault directory is created or removed
VaultChanges ==
    /\ vaultIsDir' = ~vaultIsDir
    /\ UNCHANGED <<files, environ, dotenv, api_key, server_api_key,
                   tool_handlers, other, phase, name, arguments,
                   responses, requests, client, handler, result>>

Next ==
    \/ Receive
    \/ ListFilesInVault
    \/ ListFilesInDir
    \/ GetFileContents
    \/ SimpleSearch
    \/ AppendContent
    \/ PatchContent
    \/ DeleteFile
    \/ ComplexSearch
    \/ BatchGetFileContents
    \/ GetPeriodicNote
    \/ GetRecentPeriodicNotes
    \/ GetRecentChanges
    \/ UnknownTool
    \/ Reply
    \/ VaultChanges

Spec == Init /\ [][Next]_vars

TypeOK ==
    /\ vaultIsDir \in BOOLEAN
    /\ api_key \in Tokens \cup {""}
    /\ server_api_key \in {Null} \cup {PyStr(k) : k \in Tokens \cup {""}}
    /\ phase \in {"failed", "idle", "dispatched", "returned"}
    /\ client \in {"none", "constructed", "failed"}
    /\ Len(responses) = Len(requests)

---------------------------------------------------------------------------
(* Vocabulary of the properties *)

\* the invocation named n has run to its end with a mapping as arguments
Ran(n) == phase = "returned" /\ name = n /\ arguments.t = "dict"

\* {scheme}://{host}:{port}
BaseUrl == <<"https", "://", "127.0.0.1", ":", "27124">>
RecognizedPeriods == {"daily", "weekly", "monthly", "quarterly", "yearly"}

\* the store's i-th answer: a failed request, or a success status
Failed(i) == responses[i].kind = "transport" \/ responses[i].status_code >= 400
Succeeded(i) == responses[i].kind = "response" /\ responses[i].status_code < 400

Parts(msg) == {msg[i] : i \in 1..Len(msg)}

\* The argument schema each handler declares in its signature (types,
\* required parameters, Literal choices, Field minimum/maximum).
InRange(e, lo, hi) == e = Absent \/ (e.t = "int" /\ e.v >= lo /\ e.v <= hi)
AtLeast(e, lo) == e = Absent \/ (e.t = "int" /\ e.v >= lo)
DeclaredValid(n, args) ==
    CASE n = "list_files_in_vault" -> TRUE
      [] n = "list_files_in_dir" -> IsStr(args.dirpath)
      [] n = "get_file_contents" -> IsStr(args.filepath)
      [] n = "simple_search" ->
            IsStr(args.query) /\ (args.context_length = Absent \/ IsInt(args.context_length))
      [] n = "append_content" -> IsStr(args.filepath) /\ IsStr(args.content)
      [] n = "patch_content" ->
            /\ IsStr(args.filepath)
            /\ IsLiteral(args.operation, {"append", "prepend", "replace"})
            /\ IsLiteral(args.target_type, {"heading", "block", "frontmatter"})
            /\ IsStr(args.target)
            /\ IsStr(args.content)
      [] n = "delete_file" ->
            IsStr(args.filepath) /\ (args.confirm = Absent \/ IsBool(args.confirm))
      [] n = "complex_search" -> IsDict(args.query)
      [] n = "batch_get_file_contents" -> IsListOfStr(args.filepaths)
      [] n = "get_periodic_note" -> IsLiteral(args.period, RecognizedPeriods)
      [] n = "get_recent_periodic_notes" ->
            /\ IsLiteral(args.period, RecognizedPeriods)
            /\ InRange(args.limit, 1, 50)
            /\ (args.include_content = Absent \/ IsBool(args.include_content))
      [] n = "get_recent_changes" ->
            InRange(args.limit, 1, 100) /\ AtLeast(args.days, 1)
      [] OTHER -> FALSE

---------------------------------------------------------------------------
(* C1 *)

\* C1: an invocation of delete_file whose confirm argument is false or
\* omitted fails, and no request at all is issued to the store, whatever the
\* filepath is and whatever ran before.
C1_NoConfirmNoRequest ==
    (Ran("delete_file") /\ arguments.v.confirm \in {PyBool(FALSE), Absent})
        => (requests = <<>> /\ ~result.ok)

\* delete_file(filepath = "a.md") without confirm was stopped by the gate
C1_Witness ==
    /\ Ran("delete_file")
    /\ arguments.v.filepath = PyStr("a.md")
    /\ arguments.v.confirm = Absent
    /\ handler = Raise("RuntimeError", <<"confirm must be set to true to delete a file">>)
    /\ requests = <<>>

---------------------------------------------------------------------------
(* C2 *)

DeleteConfirmed ==
    Ran("delete_file") /\ IsStr(arguments.v.filepath) /\ arguments.v.confirm = PyBool(TRUE)
IsDeleteOf(req, filepath) ==
    req.method = "DELETE" /\ req.url = BaseUrl \o <<"/vault/", filepath.v>>

\* C2 as stated, where one DELETE was issued and the store answered with a
\* success status: the value returned to the caller is the store's HTTP
\* status code unchanged.
C2_Original ==
    (DeleteConfirmed /\ Len(requests) = 1 /\ Succeeded(1)) =>
        /\ result.ok
        /\ result.value.t = "int"
        /\ result.value.v = responses[1].status_code

\* C2 amended: delete_file with confirm=true issues at most one request, a
\* DELETE to /vault/{filepath}: exactly one once its client is constructed,
\* none when the construction raises. The store answering with a success
\* status, Obsidian.delete_file returns the status code unchanged and the tool
\* returns the text "Successfully deleted {filepath}".
C2_DeleteOnceAndAnnounce ==
    DeleteConfirmed =>
        /\ Len(requests) = (IF client = "constructed" THEN 1 ELSE 0)
        /\ \A i \in 1..Len(requests) : IsDeleteOf(requests[i], arguments.v.filepath)
        /\ client # "constructed" => ~result.ok
        /\ (Len(requests) = 1 /\ Succeeded(1)) =>
              /\ result = Return(Fmt(<<"Successfully deleted ", arguments.v.filepath.v>>))
              /\ delete_file_api(Obsidian(api_key, obsidian_host, TRUE).self,
                                 arguments.v.filepath, responses[1]).out
                   = Return(PyInt(responses[1].status_code))

\* a confirmed delete of a.md that the store answered with 204
C2_Witness ==
    /\ DeleteConfirmed
    /\ arguments.v.filepath = PyStr("a.md")
    /\ Len(requests) = 1
    /\ responses[1] = Response(204, EmptyBody)
    /\ result.ok

---------------------------------------------------------------------------
(* C3 *)

\* C3 as stated: in every reachable state, a request recorded for an
\* invocation implies that the invocation's arguments were valid for the
\* schema its operation declares.
C3_Original ==
    (phase = "returned" /\ requests # <<>>)
        => (arguments.t = "dict" /\ DeclaredValid(name, arguments.v))

---------------------------------------------------------------------------
(* C4 *)

\* C4: get_periodic_note issues a request only for one of the five periods,
\* and then the single request is a GET of exactly /periodic/{period}/ for
\* that period; for any other period the invocation fails without a request.
C4_PeriodicNoteRequest ==
    Ran("get_periodic_note") =>
        /\ requests # <<>> =>
              /\ IsLiteral(arguments.v.period, RecognizedPeriods)
              /\ Len(requests) = 1
              /\ requests[1].method = "GET"
              /\ requests[1].url = BaseUrl \o <<"/periodic/", arguments.v.period.v, "/">>
        /\ ~IsLiteral(arguments.v.period, RecognizedPeriods) =>
              (~result.ok /\ requests = <<>>)

\* get_periodic_note("weekly") fetched the note
C4_Witness ==
    /\ Ran("get_periodic_note")
    /\ arguments.v.period = PyStr("weekly")
    /\ Len(requests) = 1
    /\ result = Return(PyStr("hello"))

---------------------------------------------------------------------------
(* C5 *)

\* C5 as stated: get_recent_periodic_notes issues a request only when limit
\* is an integer in 1..50 (5 when omitted); the one request of a valid call
\* is a GET of /periodic/{period}/recent with exactly the query parameters
\* limit and includeContent (false when omitted).
C5_Original ==
    (Ran("get_recent_periodic_notes") /\ requests # <<>>) =>
        /\ InRange(arguments.v.limit, 1, 50)
        /\ Len(requests) = 1
        /\ requests[1].method = "GET"
        /\ requests[1].url = BaseUrl \o <<"/periodic/", arguments.v.period.v, "/recent">>
        /\ DOMAIN requests[1].params = {"limit", "includeContent"}
        /\ requests[1].params["limit"] = Get(arguments.v.limit, PyInt(5))
        /\ requests[1].params["includeContent"]
              = Get(arguments.v.include_content, PyBool(FALSE))

---------------------------------------------------------------------------
(* C6 *)

Separator == "\n\n---\n\n"
HasSeparator(parts) == \E i \in 1..Len(parts) : parts[i] = Separator
FirstSeparator(parts) ==
    CHOOSE i \in 1..Len(parts) :
        parts[i] = Separator /\ \A j \in 1..(i - 1) : parts[j] # Separator

\* the sections of a batch result, each ending with the separator
RECURSIVE SplitSections(_)
SplitSections(parts) ==
    IF parts = <<>> THEN <<>>
    ELSE IF ~HasSeparator(parts) THEN <<parts>>
    ELSE <<SubSeq(parts, 1, FirstSeparator(parts))>>
         \o SplitSections(SubSeq(parts, FirstSeparator(parts) + 1, Len(parts)))

BatchOver(filepaths) ==
    Ran("batch_get_file_contents") /\ arguments.v.filepaths = PyList(filepaths)

\* N sections in input order, one per path: an error section naming the path
\* where the read failed, a content section where it succeeded; and one read
\* attempted per path, whatever failed before it
SectionsMatch(filepaths) ==
    /\ result.ok
    /\ Len(requests) = Len(filepaths)
    /\ \A i \in 1..Len(filepaths) :
          /\ requests[i].method = "GET"
          /\ requests[i].url = BaseUrl \o <<"/vault/", filepaths[i].v>>
    /\ Len(SplitSections(result.value.v)) = Len(filepaths)
    /\ \A i \in 1..Len(filepaths) :
          LET section == SplitSections(result.value.v)[i]
          IN  /\ SubSeq(section, 1, 3) = <<"# ", filepaths[i].v, "\n\n">>
              /\ Failed(i) <=> section[4] = "Error reading file: "
              /\ Succeeded(i) <=> section[4] = "{'now': "

\* C6 as stated: batch_get_file_contents over a list of N paths always
\* succeeds as a whole and returns exactly N sections in input order, an
\* error section for a failed read and a content section for a successful
\* one, a failure at position i never preventing the reads after it.
C6_Original ==
    \A fs \in SeqsUpTo({PyStr(f) : f \in Paths}, MaxPaths) :
        BatchOver(fs) => SectionsMatch(fs)

\* What does hold of the batch read: the same, once the handler has its client.
BatchSectionsOnceConstructed ==
    \A fs \in SeqsUpTo({PyStr(f) : f \in Paths}, MaxPaths) :
        (BatchOver(fs) /\ client = "constructed") => SectionsMatch(fs)
BatchPartialFailureSeen ==
    /\ BatchOver(<<PyStr("missing.md"), PyStr("a.md")>>)
    /\ client = "constructed"
    /\ Failed(1) /\ Succeeded(2) /\ result.ok

---------------------------------------------------------------------------
(* C7 *)

\* the store's raw result list, and what simple_search returned for it
SearchAnswered ==
    Ran("simple_search") /\ Len(requests) = 1 /\ Succeeded(1)
RawResults == responses[1].content.v.v

\* the projection of one raw match and of one raw result that C7 describes
MatchProjected(raw, out) ==
    /\ DOMAIN out.v = {"context", "match_position"}
    /\ out.v.context = (IF raw.v.context = Absent THEN PyStr("") ELSE raw.v.context)
    /\ DOMAIN out.v.match_position.v = {"start", "end"}
    /\ (raw.v.match # Absent /\ raw.v.match.v.start # Absent)
          => out.v.match_position.v.start = raw.v.match.v.start
    /\ (raw.v.match # Absent /\ raw.v.match.v.end # Absent)
          => out.v.match_position.v.end = raw.v.match.v.end
ResultProjected(raw, out) ==
    /\ DOMAIN out.v = {"filename", "score", "matches"}
    /\ raw.v.filename # Absent => out.v.filename = raw.v.filename
    /\ out.v.score = (IF raw.v.score = Absent THEN PyInt(0) ELSE raw.v.score)
    /\ out.v.matches.t = "list"
    /\ Len(out.v.matches.v) = (IF raw.v.matches = Absent THEN 0 ELSE Len(raw.v.matches.v))
    /\ \A k \in 1..Len(out.v.matches.v) :
          MatchProjected(raw.v.matches.v[k], out.v.matches.v[k])

\* C7: simple_search returns one entry per entry of the store's result list,
\* in the same order, each with exactly the fields filename, score (0 when
\* the store omits it) and matches (empty when omitted); every match keeps its
\* place and is re-projected to context (empty when omitted) and start/end;
\* extra fields of the store are dropped.
C7_SearchProjection ==
    SearchAnswered =>
        /\ result.ok
        /\ result.value.t = "list"
        /\ Len(result.value.v) = Len(RawResults)
        /\ \A i \in 1..Len(RawResults) :
              ResultProjected(RawResults[i], result.value.v[i])

\* the store returned a bare {filename} and then a full result with an extra
\* field; both came back projected
C7_Witness ==
    /\ SearchAnswered
    /\ Len(RawResults) = 2
    /\ RawResults[1].v.score = Absent /\ RawResults[1].v.matches = Absent
    /\ RawResults[2].v.path # Absent
    /\ result.ok
    /\ result.value.v[1] = PyDict([filename |-> PyStr("a.md"), score |-> PyInt(0),
                                   matches |-> PyList(<<>>)])

---------------------------------------------------------------------------
(* C8, C9 *)

\* the shared executor raised: a tool other than the batch read issued its
\* one request and the request failed; handler is then the exception that
\* left _make_request
ExecutorRaised ==
    /\ phase = "returned"
    /\ name # "batch_get_file_contents"
    /\ Len(requests) = 1
    /\ Failed(1)
HttpError == responses[1].kind = "response"
Body == responses[1].content
IsJsonObject(b) == b.t = "json" /\ b.v.t = "dict"
StoreErrorText(code, message) == <<"Error ", code, ": ", message>>

\* C8 as stated: an HTTP error response with JSON body {errorCode: c,
\* message: m} yields the error (c, m) verbatim, and a transport-level
\* failure yields the error with code -1 and the description of the failure.
C8_Original ==
    ExecutorRaised =>
        /\ (HttpError /\ IsJsonObject(Body) /\ Body.v.v.errorCode # Absent
                /\ Body.v.v.message # Absent)
              => handler = Raise("Exception",
                                 StoreErrorText(ToString(Body.v.v.errorCode.v),
                                                Body.v.v.message.v))
        /\ ~HttpError
              => handler = Raise("Exception", StoreErrorText("-1", responses[1].desc))

\* C8 amended: an HTTP error response with a JSON object body {errorCode: c,
\* message: m} yields Exception("Error c: m"), c and m verbatim; a
\* transport-level failure yields Exception("Request failed: <description>"),
\* which carries the description and no numeric code; an HTTP error whose
\* non-empty body is not a JSON object lets the decoding error escape instead.
C8_ExecutorFailures ==
    ExecutorRaised =>
        /\ (HttpError /\ IsJsonObject(Body) /\ Body.v.v.errorCode # Absent
                /\ Body.v.v.message # Absent)
              => handler = Raise("Exception",
                                 StoreErrorText(ToString(Body.v.v.errorCode.v),
                                                Body.v.v.message.v))
        /\ ~HttpError
              => /\ handler = Raise("Exception", <<"Request failed: ", responses[1].desc>>)
                 /\ "-1" \notin Parts(handler.exc.msg)
        /\ (HttpError /\ Body.t = "text") => handler.exc.type = "JSONDecodeError"
        /\ (HttpError /\ Body.t = "json" /\ ~IsJsonObject(Body))
              => handler.exc.type = "AttributeError"
        /\ (HttpError /\ (Body.t = "empty" \/ IsJsonObject(Body)))
              => handler.exc.type = "Exception"

\* a 404 with {errorCode: 40102, message: "not found"}, and a refused
\* connection, each surfaced by the executor
C8_WitnessStore ==
    /\ ExecutorRaised
    /\ responses[1] = Response(404, JsonBody(PyDict([errorCode |-> PyInt(40102),
                                                     message |-> PyStr("not found")])))
    /\ handler.exc.msg = <<"Error ", "40102", ": ", "not found">>
C8_Witness ==
    /\ ExecutorRaised
    /\ responses[1] = TransportFailure("Connection refused")
    /\ handler.exc.msg = <<"Request failed: ", "Connection refused">>

\* C9 as stated: for an HTTP error status the executor fails with the
\* normalized error in all three body cases (empty, JSON lacking errorCode
\* and/or message, not parseable as JSON), a missing code becoming -1 and a
\* missing message the placeholder; no other kind of exception escapes.
C9_Original ==
    (ExecutorRaised /\ HttpError /\ (Body.t \in {"empty", "text"} \/ IsJsonObject(Body)))
        => /\ handler.exc.type = "Exception"
           /\ handler.exc.msg =
                IF IsJsonObject(Body)
                THEN StoreErrorText(
                        IF Body.v.v.errorCode = Absent THEN "-1"
                        ELSE ToString(Body.v.v.errorCode.v),
                        IF Body.v.v.message = Absent THEN "<unknown>"
                        ELSE Body.v.v.message.v)
                ELSE StoreErrorText("-1", "<unknown>")

\* What does hold: the defaults, for an empty body and for a JSON object.
DefaultsForEmptyOrObjectBody ==
    (ExecutorRaised /\ HttpError /\ (Body.t = "empty" \/ IsJsonObject(Body)))
        => /\ handler.exc.type = "Exception"
           /\ handler.exc.msg =
                IF IsJsonObject(Body)
                THEN StoreErrorText(
                        IF Body.v.v.errorCode = Absent THEN "-1"
                        ELSE ToString(Body.v.v.errorCode.v),
                        IF Body.v.v.message = Absent THEN "<unknown>"
                        ELSE Body.v.v.message.v)
                ELSE StoreErrorText("-1", "<unknown>")

---------------------------------------------------------------------------
(* C10 *)

\* a tool other than the batch read whose one request failed
RequestFailed ==
    /\ phase = "returned"
    /\ name \in ToolNames \ {"batch_get_file_contents"}
    /\ Len(requests) = 1
    /\ Failed(1)

\* C10 as stated: the invocation then ends as a failure, never as a success
\* value, and the failure reaching the caller is the Client's error unchanged.
C10_Original ==
    RequestFailed => (~result.ok /\ result.exc = handler.exc)

\* C10 amended: the invocation then ends as a failure, never as a success
\* value; the Client's error leaves the handler unchanged, and call_tool
\* raises to the caller a RuntimeError whose message is "Caught Exception.
\* Error: " followed by the Client's message, which carries the store's
\* message (or the description of the transport failure).
C10_FailureSurfaces ==
    RequestFailed =>
        /\ ~result.ok
        /\ ~handler.ok
        /\ handler = (IF HttpError THEN HTTPErrorHandler(responses[1])
                      ELSE Raise("Exception", <<"Request failed: ", responses[1].desc>>))
        /\ result.exc.type = "RuntimeError"
        /\ result.exc.msg = <<"Caught Exception. Error: ">> \o handler.exc.msg
        /\ (HttpError /\ IsJsonObject(Body) /\ Body.v.v.message # Absent)
              => Body.v.v.message.v \in Parts(result.exc.msg)
        /\ ~HttpError => responses[1].desc \in Parts(result.exc.msg)

\* append_content was answered 404 "not found" and failed with that message
C10_Witness ==
    /\ RequestFailed
    /\ name = "append_content"
    /\ responses[1] = Response(404, JsonBody(PyDict([errorCode |-> PyInt(40102),
                                                     message |-> PyStr("not found")])))
    /\ result = Raise("RuntimeError",
                      <<"Caught Exception. Error: ", "Error ", "40102", ": ", "not found">>)

---------------------------------------------------------------------------
(* C11 *)

CapabilityHeaders == {"Content-Type", "Operation", "Target-Type", "Target"}

\* C11: every request issued carries the header Authorization: Bearer <token>
\* with the token the client was constructed with, and the headers a
\* capability adds (Content-Type, Operation, Target-Type, Target) come on top
\* of it, never in its place.
C11_AuthorizationOnEveryRequest ==
    \A i \in 1..Len(requests) :
        /\ "Authorization" \in DOMAIN requests[i].headers
        /\ requests[i].headers["Authorization"] = <<"Bearer ", api_key>>
        /\ DOMAIN requests[i].headers \subseteq {"Authorization"} \cup CapabilityHeaders

\* patch_content sent its four headers and the Authorization header with them
C11_Witness ==
    /\ Ran("patch_content")
    /\ Len(requests) = 1
    /\ DOMAIN requests[1].headers = {"Authorization"} \cup CapabilityHeaders
    /\ requests[1].headers["Authorization"] = <<"Bearer ", api_key>>

---------------------------------------------------------------------------
(* C12: the round trip against a store that keeps bodies faithfully *)

Texts == {"hello", "", "# Title\n\nline two \n"}
FileNotFound ==
    Response(404, JsonBody(PyDict([errorCode |-> PyInt(40102),
                                   message |-> PyStr("not found")])))

\* the file a request to /vault/{filepath} is about, and the body it carries
StubPath(req) == req.url[Len(req.url)]
StubBody(req) == IF req.data = Absent THEN "" ELSE req.data.v

\* the store's answer to req when it holds fs: a POST creates the file with
\* the body it received, a GET returns the body held, a DELETE removes it
StubAnswer(fs, req) ==
    CASE req.method = "POST" -> Response(204, EmptyBody)
      [] fs[StubPath(req)] = Absent -> FileNotFound
      [] req.method = "GET" ->
            IF fs[StubPath(req)].v = "" THEN Response(200, EmptyBody)
            ELSE Response(200, TextBody(fs[StubPath(req)].v))
      [] req.method = "DELETE" -> Response(204, EmptyBody)
StubAfter(fs, req) ==
    CASE req.method = "POST" -> [fs EXCEPT ![StubPath(req)] = PyStr(StubBody(req))]
      [] req.method = "DELETE" -> [fs EXCEPT ![StubPath(req)] = Absent]
      [] OTHER -> fs
StubAnswers ==
    {Response(204, EmptyBody), Response(200, EmptyBody), FileNotFound}
    \cup {Response(200, TextBody(t)) : t \in Texts \ {""}}

RoundTripTools == {"append_content", "get_file_contents", "delete_file"}
RoundTripArguments(n) ==
    CASE n = "append_content" ->
            [filepath : {PyStr(f) : f \in {p \in Paths : files[p] = Absent}},
             content : {PyStr(t) : t \in Texts}]
      [] n = "get_file_contents" -> [filepath : {PyStr(f) : f \in Paths}]
      [] n = "delete_file" ->
            [filepath : {PyStr(f) : f \in Paths}, confirm : {PyBool(TRUE)}]

\* the caller appends to a file the store does not hold, reads a file, or
\* deletes one
RoundTripReceive ==
    /\ phase = "idle"
    /\ \E n \in RoundTripTools :
         \E r \in RoundTripArguments(n) :
            /\ name' = n
            /\ arguments' = PyDict(r)
    /\ phase' = "dispatched"
    /\ UNCHANGED <<vaultIsDir, files, environ, dotenv, api_key, server_api_key,
                   tool_handlers, other, responses,
                   requests, client, handler, result>>

\* done is what call_tool did when the store answered resp to its request,
\* resp being the store's answer to that very request
StubServed(done, resp) ==
    /\ Len(done.requests) <= 1
    /\ Len(done.requests) = 1 => resp = StubAnswer(files, done.requests[1])
    /\ Len(done.requests) = 0 => resp = FileNotFound
    /\ Finish(done, <<resp>>)
    /\ files' = IF Len(done.requests) = 1 THEN StubAfter(files, done.requests[1])
                ELSE files

RoundTripRun ==
    /\ phase = "dispatched"
    /\ \E resp \in StubAnswers :
         StubServed(call_tool(name, arguments, <<resp>>, api_key, vaultIsDir,
                              tool_handlers),
                    resp)
    /\ phase' = "returned"
    /\ UNCHANGED <<vaultIsDir, environ, dotenv, api_key, server_api_key,
                   tool_handlers, other, name, arguments>>

RoundTripAppend ==
    /\ name = "append_content"
    /\ RoundTripRun
RoundTripRead ==
    /\ name = "get_file_contents"
    /\ RoundTripRun
RoundTripDelete ==
    /\ name = "delete_file"
    /\ RoundTripRun

RoundTripNext ==
    \/ RoundTripReceive
    \/ RoundTripAppend
    \/ RoundTripRead
    \/ RoundTripDelete
    \/ Reply
    \/ VaultChanges

SpecRoundTrip == Init /\ [][RoundTripNext]_vars

HeldText(p) == files[p].v
AppendServed ==
    /\ Ran("append_content") /\ Len(requests) = 1 /\ Succeeded(1)
ReadServed ==
    /\ Ran("get_file_contents") /\ Len(requests) = 1 /\ Succeeded(1)

---------------------------------------------------------------------------
(* C13 *)

TokenInEnvironment == ~Falsy(getenv(load_dotenv(environ, dotenv), Null))
BearerOf(req) == req.headers["Authorization"]

\* C13 as stated: if the bearer token is absent from the environment at
\* startup, startup fails and no tool invocation is ever served; and no
\* request is ever issued with an empty or missing bearer token.
C13_Original ==
    /\ ~TokenInEnvironment =>
          (phase = "failed" /\ requests = <<>> /\ result = NoResult)
    /\ \A i \in 1..Len(requests) :
          /\ "Authorization" \in DOMAIN requests[i].headers
          /\ BearerOf(requests[i]) # <<"Bearer ", "">>

\* What does hold: without a token in the environment or in .env, startup
\* fails and nothing is ever served.
NothingServedWithoutToken ==
    ~TokenInEnvironment =>
        (phase = "failed" /\ requests = <<>> /\ result = NoResult /\ tool_handlers = {})
EmptyBearerSent ==
    /\ phase = "returned"
    /\ Len(requests) = 1
    /\ BearerOf(requests[1]) = <<"Bearer ", "">>
    /\ server_api_key = PyStr("tok-B")

---------------------------------------------------------------------------
(* C14 *)

TwelveNames ==
    {"list_files_in_vault", "list_files_in_dir", "get_file_contents",
     "simple_search", "append_content", "patch_content", "delete_file",
     "complex_search", "batch_get_file_contents", "get_periodic_note",
     "get_recent_periodic_notes", "get_recent_changes"}
NotDispatchable ==
    phase = "returned" /\ (arguments.t # "dict" \/ name \notin tool_handlers)

\* C14: once started, the registry holds exactly the twelve operation names,
\* in every state whatever was invoked; and an invocation naming a tool that
\* is not registered, or whose arguments are not a mapping, fails without
\* running a handler and without issuing a request.
C14_RegistryFixed ==
    /\ phase # "failed" =>
          (tool_handlers = TwelveNames /\ Cardinality(tool_handlers) = 12)
    /\ NotDispatchable =>
          /\ ~result.ok
          /\ result.exc.type = (IF arguments.t # "dict" THEN "RuntimeError"
                                ELSE "ValueError")
          /\ handler = NoResult
          /\ client = "none"
          /\ requests = <<>>

\* a tool nobody registered was invoked with a mapping and was refused
C14_Witness ==
    /\ NotDispatchable
    /\ arguments.t = "dict"
    /\ name = "no_such_tool"
    /\ result = Raise("ValueError", <<"Unknown tool: ", "no_such_tool">>)
    /\ tool_handlers = TwelveNames
\* arguments that are a list were refused
NonMappingRefused ==
    /\ NotDispatchable
    /\ arguments = NotADict
    /\ name = "delete_file"
    /\ result = Raise("RuntimeError", <<"arguments must be dictionary">>)

---------------------------------------------------------------------------
(* C15 *)

\* a client method has been called: the handler got its client constructed
CapabilityInvoked == phase = "returned" /\ client = "constructed"
ReadOf(req, filepath) ==
    req.method = "GET" /\ req.url = BaseUrl \o <<"/vault/", filepath.v>>

\* C15: no operation retries.  A client capability other than the batch read
\* issues exactly one request, whether it succeeds or fails; the batch read
\* over N paths issues exactly N GET requests, one per path, in input order,
\* whichever of them fail.
C15_NoRetries ==
    CapabilityInvoked =>
        /\ Len(responses) = Len(requests)
        /\ IF name = "batch_get_file_contents"
           THEN /\ Len(requests) = Len(arguments.v.filepaths.v)
                /\ \A i \in 1..Len(requests) :
                      ReadOf(requests[i], arguments.v.filepaths.v[i])
           ELSE Len(requests) = 1

\* three reads, the first and the last refused by the store, all attempted
C15_Witness ==
    /\ CapabilityInvoked
    /\ name = "batch_get_file_contents"
    /\ arguments.v.filepaths =
          PyList(<<PyStr("missing.md"), PyStr("a.md"), PyStr("missing.md")>>)
    /\ Len(requests) = 3
    /\ Failed(1) /\ Succeeded(2) /\ Failed(3)
\* a single request that failed and was not repeated
FailedOnceNotRepeated ==
    /\ CapabilityInvoked
    /\ name = "append_content"
    /\ Len(requests) = 1
    /\ Failed(1)

---------------------------------------------------------------------------
(* C16: two invocations in flight *)

\* call_tool reading the invocation from module-level state, which holds the
\* invocation received first
Served_shared(inv, resps, key, isDir, registry) ==
    call_tool(name, arguments, resps, key, isDir, registry)

\* call_tool running for the invocation inv: name and arguments are its
\* parameters, the client is a local of the handler
Served(inv, resps, key, isDir, registry) ==
    call_tool(inv.name, inv.arguments, resps, key, isDir, registry)

ConcurrentTools == {"list_files_in_vault", "delete_file", "get_periodic_note"}
ConcurrentArguments(n) ==
    CASE n = "list_files_in_vault" -> {PyDict(NoParams), NotADict}
      [] n = "delete_file" ->
            {PyDict([filepath |-> PyStr("a.md"), confirm |-> c]) :
                c \in {PyBool(TRUE), Absent}}
      [] n = "get_periodic_note" ->
            {PyDict([period |-> PyStr(q)]) : q \in {"daily", "hourly"}}
ConcurrentAnswers ==
    {Response(200, EmptyBody), FileNotFound, TransportFailure("Read timed out")}

\* the transport runtime hands call_tool an invocation while the other one
\* may be in flight
FirstReceive ==
    /\ phase = "idle"
    /\ \E n \in ConcurrentTools :
         \E a \in ConcurrentArguments(n) :
            /\ name' = n
            /\ arguments' = a
    /\ phase' = "dispatched"
    /\ UNCHANGED <<vaultIsDir, files, environ, dotenv, api_key, server_api_key,
                   tool_handlers, other, responses, requests, client, handler,
                   result>>
SecondReceive ==
    /\ phase # "failed"
    /\ other.phase = "idle"
    /\ \E n \in ConcurrentTools :
         \E a \in ConcurrentArguments(n) :
            other' = [other EXCEPT !.phase = "dispatched", !.name = n,
                                   !.arguments = a]
    /\ UNCHANGED <<vaultIsDir, files, environ, dotenv, api_key, server_api_key,
                   tool_handlers, phase, name, arguments, responses, requests,
                   client, handler, result>>

FirstDone(done, resp) ==
    /\ Finish(done, <<resp>>)
    /\ phase' = "returned"
FirstRun ==
    /\ phase = "dispatched"
    /\ \E resp \in ConcurrentAnswers :
         FirstDone(Served([name |-> name, arguments |-> arguments], <<resp>>,
                          api_key, vaultIsDir, tool_handlers),
                   resp)
    /\ UNCHANGED <<vaultIsDir, files, environ, dotenv, api_key, server_api_key,
                   tool_handlers, other, name, arguments>>

SecondDone(done, resp) ==
    other' = [other EXCEPT !.phase = "returned",
                           !.requests = done.requests,
                           !.responses = SubSeq(<<resp>>, 1, Len(done.requests)),
                           !.client = done.client,
                           !.handler = done.handler,
                           !.result = done.result]
SecondRun ==
    /\ other.phase = "dispatched"
    /\ \E resp \in ConcurrentAnswers :
         SecondDone(Served(other, <<resp>>, api_key, vaultIsDir, tool_handlers),
                    resp)
    /\ UNCHANGED <<vaultIsDir, files, environ, dotenv, api_key, server_api_key,
                   tool_handlers, phase, name, arguments, responses, requests,
                   client, handler, result>>

SecondReply ==
    /\ other.phase = "returned"
    /\ other' = NotInFlight
    /\ UNCHANGED <<vaultIsDir, files, environ, dotenv, api_key, server_api_key,
                   tool_handlers, phase, name, arguments, responses, requests,
                   client, handler, result>>

ConcurrentNext ==
    \/ FirstReceive
    \/ FirstRun
    \/ Reply
    \/ SecondReceive
    \/ SecondRun
    \/ SecondReply
    \/ VaultChanges

SpecConcurrent == Init /\ [][ConcurrentNext]_vars

First ==
    [phase |-> phase, name |-> name, arguments |-> arguments,
     responses |-> responses, requests |-> requests, client |-> client,
     handler |-> handler, result |-> result]

\* what the invocation inv does when it runs alone, the store giving it the
\* answers inv got and the vault directory being as inv found it
AnswersGot(inv) == IF inv.responses = <<>> THEN <<FileNotFound>> ELSE inv.responses
Alone(inv) ==
    call_tool(inv.name, inv.arguments, AnswersGot(inv), api_key,
              inv.client # "failed", tool_handlers)
SameOutcome(inv, alone) ==
    /\ inv.requests = alone.requests
    /\ inv.client = alone.client
    /\ inv.handler = alone.handler
    /\ inv.result = alone.result
AsAlone(inv) == inv.phase = "returned" => SameOutcome(inv, Alone(inv))
ConfigurationKept ==
    UNCHANGED <<environ, dotenv, api_key, server_api_key, tool_handlers>>

---------------------------------------------------------------------------
(* C17 *)

RecentChangesRequested == Ran("get_recent_changes") /\ requests # <<>>
\* the four lines of the query for the arguments given, 10 and 90 when omitted
FourLines(limit, days) ==
    <<"TABLE file.mtime", "\n",
      "WHERE file.mtime >= date(today) - dur(", ToString(Get(days, PyInt(90)).v),
      " days)", "\n",
      "SORT file.mtime DESC", "\n",
      "LIMIT ", ToString(Get(limit, PyInt(10)).v)>>
IsQueryPost(req, limit, days) ==
    /\ req.method = "POST"
    /\ req.url = BaseUrl \o <<"/search/">>
    /\ req.headers["Content-Type"] = <<"application/vnd.olrapi.dataview.dql+txt">>
    /\ req.data.t = "bytes"
    /\ req.data.v = FourLines(limit, days)

\* C17 as stated: get_recent_changes issues a request only when limit is an
\* integer in 1..100 and days an integer >= 1; the single request is a POST to
\* /search/ with the DQL content type whose body is the four lines TABLE /
\* WHERE / SORT / LIMIT carrying the validated days and limit.
C17_Original ==
    RecentChangesRequested =>
        /\ InRange(arguments.v.limit, 1, 100)
        /\ AtLeast(arguments.v.days, 1)
        /\ Len(requests) = 1
        /\ IsQueryPost(requests[1], arguments.v.limit, arguments.v.days)

\* What does hold: the same with no upper bound on limit.
RecentChangesQuery ==
    RecentChangesRequested =>
        /\ AtLeast(arguments.v.limit, 1)
        /\ AtLeast(arguments.v.days, 1)
        /\ Len(requests) = 1
        /\ IsQueryPost(requests[1], arguments.v.limit, arguments.v.days)
LimitAboveHundredSent ==
    /\ RecentChangesRequested
    /\ arguments.v.limit = PyInt(101)
    /\ requests[1].data.v[Len(requests[1].data.v)] = "101"

---------------------------------------------------------------------------
(* C18 *)

PatchRequested == Ran("patch_content") /\ requests # <<>>
Operations == {"append", "prepend", "replace"}
TargetTypes == {"heading", "block", "frontmatter"}
\* the two targets of the model, URL-escaped
UrlEscaped(target) ==
    CASE target = <<"H", "1", ":", ":", "a", " ", "b">> ->
            <<"H", "1", "%3A", "%3A", "a", "%20", "b">>
      [] target = <<"^", "i", "d", "/", "2">> -> <<"%5E", "i", "d", "/", "2">>
TargetNotLocated ==
    /\ Failed(1) /\ HttpError /\ IsJsonObject(Body)
    /\ Body.v.v.errorCode # Absent /\ Body.v.v.message # Absent

\* C18: patch_content issues a request only when operation is one of append,
\* prepend, replace and target_type one of heading, block, frontmatter; the
\* single request is a PATCH to /vault/{filepath} whose Operation and
\* Target-Type headers are those arguments, whose Target header is the
\* URL-escaped target and whose body is the content unchanged; when the store
\* refuses it with an error (errorCode, message) the invocation fails with
\* that error and reports no success.
C18_PatchRequest ==
    PatchRequested =>
        /\ arguments.v.operation.v \in Operations
        /\ arguments.v.target_type.v \in TargetTypes
        /\ Len(requests) = 1
        /\ requests[1].method = "PATCH"
        /\ requests[1].url = BaseUrl \o <<"/vault/", arguments.v.filepath.v>>
        /\ requests[1].headers["Operation"] = <<arguments.v.operation.v>>
        /\ requests[1].headers["Target-Type"] = <<arguments.v.target_type.v>>
        /\ requests[1].headers["Target"] = UrlEscaped(arguments.v.target.v)
        /\ requests[1].data = arguments.v.content
        /\ Failed(1) => ~result.ok
        /\ TargetNotLocated =>
              /\ handler = Raise("Exception",
                                 StoreErrorText(ToString(Body.v.v.errorCode.v),
                                                Body.v.v.message.v))
              /\ Body.v.v.message.v \in Parts(result.exc.msg)

\* a patch under the heading "H1::a b" that the store did not find
C18_Witness ==
    /\ PatchRequested
    /\ arguments.v.target.v = <<"H", "1", ":", ":", "a", " ", "b">>
    /\ requests[1].headers["Target"] = <<"H", "1", "%3A", "%3A", "a", "%20", "b">>
    /\ TargetNotLocated
    /\ ~result.ok
\* a patch that the store accepted
PatchAccepted ==
    /\ PatchRequested
    /\ Succeeded(1)
    /\ result = Return(Fmt(<<"Successfully patched content in ", "a.md">>))

---------------------------------------------------------------------------
(* C19 *)

\* the arguments pass the binding to the signature and the checks the
\* handler makes before it constructs its client
Validated(n, args) ==
    CASE n = "delete_file" -> IsStr(args.filepath) /\ args.confirm = PyBool(TRUE)
      [] n = "get_recent_periodic_notes" ->
            /\ IsLiteral(args.period, RecognizedPeriods)
            /\ AtLeast(args.limit, 1)
            /\ (args.include_content = Absent \/ IsBool(args.include_content))
      [] n = "get_recent_changes" -> AtLeast(args.limit, 1) /\ AtLeast(args.days, 1)
      [] OTHER -> DeclaredValid(n, args)
VaultNotFound ==
    Raise("FileNotFoundError",
          <<"Local Obsidian vault not found at ", "C:\\Users\\joelc\\Obsidian\\Home">>)
HandlerRuns ==
    /\ phase = "dispatched" /\ phase' = "returned"
    /\ arguments.t = "dict"
    /\ name \in tool_handlers
ConstructionFails ==
    HandlerRuns =>
        /\ (~vaultIsDir /\ Validated(name, arguments.v)) =>
              /\ client' = "failed"
              /\ requests' = <<>>
              /\ handler' = VaultNotFound
              /\ ~result'.ok
        /\ client' = "failed" => ~vaultIsDir
        /\ ~Validated(name, arguments.v) => client' = "none"

===========================================================================
